---- MODULE Spec2Model ----
(***************************************************************************)
(* Form submission handlers of starhealth-backend-js.                      *)
(*                                                                         *)
(* The repository holds three versions of the same serverless handler:     *)
(*   "basic"     src/unnamed/part_000, lines 1-171                         *)
(*   "netlify"   src/netlify/functions/submit-form.js                      *)
(*   "multipart" src/unnamed/part_000, lines 173-428                       *)
(* One request is one run of exports.handler: it runs synchronously up to  *)
(* its only suspension point (await transporter.sendMail) and is resumed   *)
(* by the mail transport resolving or rejecting.                           *)
(*                                                                         *)
(* JavaScript strings are TLA+ strings; indices in the string helpers are  *)
(* 0-based as in JavaScript.                                               *)
(***************************************************************************)
EXTENDS Integers, Sequences, FiniteSets, TLC

VARIABLES
    variant,      \* which of the three handlers serves the request
    event,        \* the request: [httpMethod, headers, body]
    env,          \* process.env: MAIL_USERNAME, MAIL_PASSWORD, EMAIL_TO, NODE_ENV
    mailer,       \* the names the loaded nodemailer module exports
    now,          \* the local time read by buildEmailSubject
    pc,           \* position of the handler: received, awaitSend, responded, threw
    response,     \* the response the handler returned (NoResponse before)
    responses,    \* number of responses produced for this request
    uncaught,     \* message of an exception that left the handler ("" if none)
    credsChecked, \* the try block evaluated the credentials check
    parsed,       \* the body parser returned a submission
    formData,     \* the parsed submission
    validation,   \* result of validateFormData on it
    transporters, \* calls of nodemailer.createTransporter in this request
    sendCalls,    \* calls of transporter.sendMail in this request
    sent,         \* the mailOptions handed to sendMail
    sendOutcome,  \* none, pending, resolved, rejected
    caught,       \* message of the error the catch block handled ("" if none)
    vData,        \* validator harness: the submission under validation
    vResult,      \* validator harness: what validateFormData returned
    vBody,        \* validator harness: the text buildEmailBody returned
    vDone,        \* validator harness: the functions have been applied
    mpParts,      \* multipart harness: the fields the body was built from
    mpBody,       \* multipart harness: the body text
    mpContentType, \* multipart harness: the content-type header of the request
    mpResult,     \* multipart harness: what parseMultipartFormData returned
    mpDone        \* multipart harness: the parser has been applied

handlerVars == <<variant, event, env, mailer, now, pc, response, responses, uncaught,
                 credsChecked, parsed, formData, validation, transporters,
                 sendCalls, sent, sendOutcome, caught>>
validatorVars == <<vData, vResult, vBody, vDone>>
multipartVars == <<mpParts, mpBody, mpContentType, mpResult, mpDone>>
vars == <<handlerVars, validatorVars, multipartVars>>

-----------------------------------------------------------------------------
(* JavaScript values.  A value is tagged with its type; v is its text.     *)

Str(s) == [t |-> "string", v |-> s]
Num(s) == [t |-> "number", v |-> s]
Null == [t |-> "null", v |-> ""]
Undefined == [t |-> "undefined", v |-> ""]

IsStr(x) == x.t = "string"

\* ToBoolean: undefined, null, "" and 0 are falsy.
Truthy(x) ==
    CASE x.t = "string" -> x.v # ""
      [] x.t = "number" -> x.v # "0"
      [] OTHER -> FALSE

\* An object is a function from property names to values; null is not one.
Obj(props) == [isObject |-> TRUE, props |-> props]
NoProps == [k \in {} |-> Undefined]
NullObj == [isObject |-> FALSE, props |-> NoProps]

\* The names every object inherits from Object.prototype.
ObjectPrototypeNames ==
    {"__proto__", "constructor", "hasOwnProperty", "isPrototypeOf",
     "propertyIsEnumerable", "toLocaleString", "toString", "valueOf",
     "__defineGetter__", "__defineSetter__", "__lookupGetter__",
     "__lookupSetter__"}

\* Property read o[k]: an own property, or undefined for a name the object
\* neither has nor inherits.  An inherited name that is not an own
\* property reads a value that is none of the model's and has no case.
Get(o, k) ==
    CASE k \in DOMAIN o.props -> o.props[k]
      [] k \notin DOMAIN o.props /\ k \notin ObjectPrototypeNames -> Undefined

\* Property write o[k] = v of a string, number or undefined v.  The name
\* __proto__ is the inherited accessor: its setter ignores such a value,
\* so the object gets no property.
Put(o, k, v) ==
    IF k = "__proto__" THEN o
    ELSE Obj([x \in (DOMAIN o.props) \cup {k} |-> IF x = k THEN v ELSE o.props[x]])

-----------------------------------------------------------------------------
(* String.prototype helpers.                                               *)

SetMin(S) == CHOOSE x \in S : \A y \in S : x <= y
SetMax(S) == CHOOSE x \in S : \A y \in S : x >= y

CharAt(s, i) == SubSeq(s, i + 1, i + 1)

\* s.substring(a, b) for 0 <= a <= b.
Substring(s, a, b) == SubSeq(s, a + 1, IF b > Len(s) THEN Len(s) ELSE b)

\* The characters of code 1 to 95 and of code 97 to 255, in code order.
\* No string of the model holds the characters of code 0 and 96 nor,
\* but for U+1680, U+FEFF and U+FFFD, a character above code 255: a
\* string of this notation cannot be written with them.
Latin1Low ==
    "\t\n\f\r !\"#$%&'()*+,-./0123456789:;<=>?@ABCDEFGHIJKLMNOPQRSTUVWXYZ[\\]^_"
Latin1High ==
    "abcdefghijklmnopqrstuvwxyz{|}~ ¡¢£¤¥¦§¨©ª«¬­®¯°±²³´µ¶·¸¹º»¼½¾¿ÀÁÂÃÄÅÆÇÈÉÊËÌÍÎÏÐÑÒÓÔÕÖ×ØÙÚÛÜÝÞßàáâãäåæçèéêëìíîïðñòóôõö÷øùúûüýþÿ"

\* String.fromCharCode(n), for the codes the two strings above hold.
CharOfCode(n) ==
    CASE n \in 1..95 -> CharAt(Latin1Low, n - 1)
      [] n \in 97..255 -> CharAt(Latin1High, n - 97)

Digit(d) == SubSeq("0123456789", d + 1, d + 1)

\* String(n) for n >= 0.
RECURSIVE NumberToString(_)
NumberToString(n) ==
    IF n < 10 THEN Digit(n) ELSE NumberToString(n \div 10) \o Digit(n % 10)

Occurrences(s, pat) ==
    {i \in 0..(Len(s) - Len(pat)) : SubSeq(s, i + 1, i + Len(pat)) = pat}

IndexOf(s, pat) ==
    LET found == Occurrences(s, pat)
    IN IF found = {} THEN -1 ELSE SetMin(found)

LastIndexOf(s, pat) ==
    LET found == Occurrences(s, pat)
    IN IF found = {} THEN -1 ELSE SetMax(found)

Includes(s, pat) == Occurrences(s, pat) # {}

\* s.split(sep) for a non-empty separator.
RECURSIVE Split(_, _)
Split(s, sep) ==
    LET i == IndexOf(s, sep)
    IN IF i = -1
       THEN <<s>>
       ELSE <<SubSeq(s, 1, i)>> \o Split(SubSeq(s, i + Len(sep) + 1, Len(s)), sep)

\* The characters trim() strips: tab, line feed, vertical tab, form feed,
\* carriage return, space, no-break space, ogham space mark (U+1680) and
\* the byte order mark (U+FEFF).  It also strips U+2000 to U+200A,
\* U+2028, U+2029, U+202F, U+205F and U+3000, which no string of this
\* notation can hold.
WhiteSpace ==
    {"\t", "\n", CharOfCode(11), "\f", "\r", " ", CharOfCode(160),
     " ", "﻿"}

RECURSIVE TrimStart(_)
TrimStart(s) ==
    IF Len(s) > 0 /\ CharAt(s, 0) \in WhiteSpace
    THEN TrimStart(SubSeq(s, 2, Len(s)))
    ELSE s

RECURSIVE TrimEnd(_)
TrimEnd(s) ==
    IF Len(s) > 0 /\ CharAt(s, Len(s) - 1) \in WhiteSpace
    THEN TrimEnd(SubSeq(s, 1, Len(s) - 1))
    ELSE s

Trim(s) == TrimStart(TrimEnd(s))

-----------------------------------------------------------------------------
(* parseMultipartFormData.                                                 *)

\* The positions where /name="([^"]+)"/ matches: name=" followed by at
\* least one character other than a quote and then a quote.
NameMatchStarts(part) ==
    {i \in Occurrences(part, "name=\"") :
        /\ Len(part) > i + 6
        /\ CharAt(part, i + 6) # "\""
        /\ Includes(SubSeq(part, i + 7, Len(part)), "\"")}

\* part.match(/name="([^"]+)"/): the leftmost match; name is group 1.
NameMatch(part) ==
    LET starts == NameMatchStarts(part)
    IN IF starts = {}
       THEN [found |-> FALSE, name |-> ""]
       ELSE LET i == SetMin(starts)
                rest == SubSeq(part, i + 7, Len(part))
            IN [found |-> TRUE, name |-> Substring(rest, 0, IndexOf(rest, "\""))]

ValueStart(part) == IndexOf(part, "\r\n\r\n") + 4
ValueEnd(part) == LastIndexOf(part, "\r\n")

\* One iteration of the loop over the parts.
ParsePart(data, part) ==
    LET nameMatch == NameMatch(part)
        valueStart == ValueStart(part)
        valueEnd == ValueEnd(part)
    IN IF /\ Includes(part, "Content-Disposition: form-data")
          /\ nameMatch.found
          /\ valueStart < valueEnd
       THEN Put(data, nameMatch.name, Str(Trim(Substring(part, valueStart, valueEnd))))
       ELSE data

RECURSIVE ParseParts(_, _)
ParseParts(parts, data) ==
    IF parts = <<>>
    THEN data
    ELSE ParseParts(Tail(parts), ParsePart(data, Head(parts)))

parseMultipartFormData(body, boundary) ==
    ParseParts(Split(body, "--" \o boundary), Obj(NoProps))

-----------------------------------------------------------------------------
(* new URLSearchParams(body).get(name): the application/x-www-form-        *)
(* urlencoded parser of the runtime.                                       *)

\* The value of the hexadecimal digit at index i of the digits below.
HexValueAt(i) == IF i > 15 THEN i - 6 ELSE i

\* The value of a hexadecimal digit, -1 for any other character.
HexValue(c) == HexValueAt(IndexOf("0123456789ABCDEFabcdef", c))

\* The byte two hexadecimal digits stand for, -1 when either is none.
ByteOf(high, low) == IF high = -1 \/ low = -1 THEN -1 ELSE 16 * high + low

\* The byte of the percent escape that begins at i ("%" and two
\* hexadecimal digits), -1 when none begins there.
PercentByte(s, i) ==
    IF i + 3 > Len(s) \/ CharAt(s, i) # "%" THEN -1
    ELSE ByteOf(HexValue(CharAt(s, i + 1)), HexValue(CharAt(s, i + 2)))

\* U+FFFD, which a decoder writes for a byte that is not UTF-8.
ReplacementCharacter == "�"

\* The parser replaces every "+" of a name or value by a space.
RECURSIVE PlusToSpace(_)
SpaceAt(s, i) ==
    IF i = -1 THEN s
    ELSE Substring(s, 0, i) \o " " \o PlusToSpace(SubSeq(s, i + 2, Len(s)))

PlusToSpace(s) == SpaceAt(s, IndexOf(s, "+"))

\* The places after i that hold no "+".
NonPlusAfter(s, i) == {m \in (i + 1)..(Len(s) - 1) : CharAt(s, m) # "+"}

\* The first two of these places hold hexadecimal digits.
TwoHexDigits(s, places) ==
    /\ Cardinality(places) >= 2
    /\ HexValue(CharAt(s, SetMin(places))) # -1
    /\ HexValue(CharAt(s, SetMin(places \ {SetMin(places)}))) # -1

\* The parser unescapes a name or value only once it has seen a "%" and
\* two hexadecimal digits after it; it steps over "+" while it looks.
Encoded(s) ==
    \E i \in 0..(Len(s) - 1) : CharAt(s, i) = "%" /\ TwoHexDigits(s, NonPlusAfter(s, i))

\* decodeURIComponent(s): ok is FALSE where it throws a URIError, at a
\* "%" that begins no escape and at escaped bytes that are not UTF-8.
\* An escaped byte below 128 is its character and the lead bytes C2 and
\* C3 with an escaped continuation byte are a character of code 128 to
\* 255; the longer sequences decode to characters above code 255 and
\* have no case here.
RECURSIVE decodeURIComponent(_)
UriJoin(prefix, rest) == [ok |-> rest.ok, text |-> prefix \o rest.text]

UriEscape(s, i, b, next) ==
    CASE b \in 0..127 ->
            UriJoin(Substring(s, 0, i) \o CharOfCode(b),
                    decodeURIComponent(SubSeq(s, i + 4, Len(s))))
      [] b \in 194..195 /\ next \in 128..191 ->
            UriJoin(Substring(s, 0, i) \o CharOfCode((b - 192) * 64 + next - 128),
                    decodeURIComponent(SubSeq(s, i + 7, Len(s))))
      [] \/ b = -1
         \/ b \in 128..193
         \/ b \in 245..255
         \/ (b \in 194..244 /\ next \notin 128..191) ->
            [ok |-> FALSE, text |-> ""]

UriAt(s, i) ==
    IF i = -1 THEN [ok |-> TRUE, text |-> s]
    ELSE UriEscape(s, i, PercentByte(s, i), PercentByte(s, i + 3))

decodeURIComponent(s) == UriAt(s, IndexOf(s, "%"))

\* c.charCodeAt(0), for the characters a string of the model can hold.
CodeAt(c, low, high) ==
    CASE low # -1 -> low + 1
      [] high # -1 -> high + 97
      [] c = " " -> 5760
      [] c = "﻿" -> 65279
      [] c = ReplacementCharacter -> 65533

CodeOf(c) == CodeAt(c, IndexOf(Latin1Low, c), IndexOf(Latin1High, c))

\* querystring.unescapeBuffer(s): an escape is its byte, and any other
\* character the low eight bits of its code.
RECURSIVE unescapeBuffer(_)
BufferFrom(s, b) ==
    IF b # -1
    THEN <<b>> \o unescapeBuffer(SubSeq(s, 4, Len(s)))
    ELSE <<CodeOf(CharAt(s, 0)) % 256>> \o unescapeBuffer(SubSeq(s, 2, Len(s)))

unescapeBuffer(s) == IF s = "" THEN <<>> ELSE BufferFrom(s, PercentByte(s, 0))

\* buffer.toString(): the bytes decoded as UTF-8, U+FFFD for a byte that
\* begins no sequence.  The sequences of three and four bytes have no
\* case here.
RECURSIVE Utf8Decode(_)
Utf8Step(bytes, b, next) ==
    CASE b < 128 -> CharOfCode(b) \o Utf8Decode(Tail(bytes))
      [] b \in 194..195 /\ next \in 128..191 ->
            CharOfCode((b - 192) * 64 + next - 128) \o Utf8Decode(Tail(Tail(bytes)))
      [] \/ b \in 128..193
         \/ b \in 245..255
         \/ (b \in 194..244 /\ next \notin 128..191) ->
            ReplacementCharacter \o Utf8Decode(Tail(bytes))

Utf8Decode(bytes) ==
    IF bytes = <<>> THEN ""
    ELSE Utf8Step(bytes, Head(bytes), IF Len(bytes) > 1 THEN bytes[2] ELSE -1)

\* querystring.unescape(s): decodeURIComponent, and where that throws
\* the bytes of unescapeBuffer as text.
UnescapeWith(s, decoded) ==
    IF decoded.ok THEN decoded.text ELSE Utf8Decode(unescapeBuffer(s))

Unescape(s) == UnescapeWith(s, decodeURIComponent(s))

\* A name or value of the query as the parser returns it.
DecodeComponent(encoded, buf) == IF encoded THEN Unescape(buf) ELSE buf

UrlDecode(s) == DecodeComponent(Encoded(s), PlusToSpace(s))

\* A name=value segment as a decoded pair.
PairAt(seg, i) ==
    <<UrlDecode(IF i = -1 THEN seg ELSE Substring(seg, 0, i)),
      UrlDecode(IF i = -1 THEN "" ELSE SubSeq(seg, i + 2, Len(seg)))>>

ParamPair(seg) == PairAt(seg, IndexOf(seg, "="))

RECURSIVE ParamPairs(_)
ParamPairs(segs) ==
    IF segs = <<>> THEN <<>>
    ELSE IF Head(segs) = "" THEN ParamPairs(Tail(segs))
    ELSE <<ParamPair(Head(segs))>> \o ParamPairs(Tail(segs))

\* The constructor's argument as the text it parses: undefined and null
\* both give the empty list; a leading "?" is dropped.
ParamsInit(body) ==
    CASE body.t \in {"undefined", "null"} -> ""
      [] OTHER -> IF Len(body.v) > 0 /\ CharAt(body.v, 0) = "?"
                  THEN SubSeq(body.v, 2, Len(body.v))
                  ELSE body.v

URLSearchParams(body) == ParamPairs(Split(ParamsInit(body), "&"))

\* params.get(name): the first value of that name, or null.
ParamsGet(params, name) ==
    IF \E i \in 1..Len(params) : params[i][1] = name
    THEN Str(params[SetMin({i \in 1..Len(params) : params[i][1] = name})][2])
    ELSE Null

\* The object the handlers build from the url-encoded body.
UrlEncodedFormData(body) ==
    LET params == URLSearchParams(body)
    IN Obj([k \in {"name", "email", "phone", "needs"} |-> ParamsGet(params, k)])

-----------------------------------------------------------------------------
(* JSON.parse(event.body) on the bodies the model sends.                   *)

JsonComplete ==
    "{\"name\":\"Jo\",\"email\":\"jo@x.com\",\"phone\":\"+15555550123\",\"needs\":\"Health cover\"}"
JsonNoNeeds ==
    "{\"name\":\"Jo\",\"email\":\"jo@x.com\",\"phone\":\"+15555550123\"}"
JsonAllInvalid ==
    "{\"name\":\"J\",\"email\":\"not-an-email\",\"phone\":\"abc\"}"
JsonNumberName == "{\"name\":5}"
JsonTruncated == "{\"name\":\"Jo\","

Props3(n, e, p) ==
    [k \in {"name", "email", "phone"} |->
        CASE k = "name" -> n [] k = "email" -> e [] OTHER -> p]

\* The value of each JSON text above; every other body of the model
\* (empty, truncated, url-encoded, multipart) is not JSON.
JsonValue(text) ==
    CASE text = JsonComplete ->
            Put(Obj(Props3(Str("Jo"), Str("jo@x.com"), Str("+15555550123"))),
                "needs", Str("Health cover"))
      [] text = JsonNoNeeds ->
            Obj(Props3(Str("Jo"), Str("jo@x.com"), Str("+15555550123")))
      [] text = JsonAllInvalid ->
            Obj(Props3(Str("J"), Str("not-an-email"), Str("abc")))
      [] text = JsonNumberName ->
            Obj([k \in {"name"} |-> Num("5")])

JsonTexts == {JsonComplete, JsonNoNeeds, JsonAllInvalid, JsonNumberName}

\* A step that either yields a value or throws an Error with a message.
Ok(x) == [ok |-> TRUE, value |-> x, error |-> ""]
Throw(msg) == [ok |-> FALSE, value |-> NullObj, error |-> msg]

\* "Unexpected token" at position pos < 10: a text shorter than 21
\* characters is quoted whole, a longer one up to 10 characters past pos.
UnexpectedToken(text, pos) ==
    "Unexpected token '" \o CharAt(text, pos) \o "', \""
        \o (IF Len(text) < 21
            THEN text \o "\""
            ELSE Substring(text, 0, pos + 10) \o "\"...")
        \o " is not valid JSON"

\* Where a text that begins with "n" stops spelling null.
NullMismatches(text) ==
    {i \in 1..3 : i >= Len(text) \/ CharAt(text, i) # CharAt("null", i)}

NullMismatch(text) == SetMin(NullMismatches(text))

\* The message of the SyntaxError for the texts of the model that are not
\* JSON: the empty text, an object cut after a comma, a text that begins
\* with "-" and no digit, and a text that begins with "n" and is not null.
JsonSyntaxError(text) ==
    CASE text = "" -> "Unexpected end of JSON input"
      [] text = JsonTruncated ->
            "Expected double-quoted property name in JSON at position "
                \o NumberToString(Len(text))
      [] /\ text # ""
         /\ CharAt(text, 0) = "-"
         /\ (Len(text) = 1 \/ ~Includes("0123456789", CharAt(text, 1))) ->
            "No number after minus sign in JSON at position 1"
      [] /\ text # ""
         /\ CharAt(text, 0) = "n"
         /\ NullMismatches(text) # {}
         /\ NullMismatch(text) >= Len(text) ->
            "Unexpected end of JSON input"
      [] /\ text # ""
         /\ CharAt(text, 0) = "n"
         /\ NullMismatches(text) # {}
         /\ NullMismatch(text) < Len(text)
         /\ ~Includes("0123456789-\"", CharAt(text, NullMismatch(text))) ->
            UnexpectedToken(text, NullMismatch(text))

\* JSON.parse converts its argument to a string first: null parses to
\* null, undefined is a syntax error.  The message text is the runtime's.
JsonParse(body) ==
    CASE body.t = "null" -> Ok(NullObj)
      [] body.t = "undefined" -> Throw("\"undefined\" is not valid JSON")
      [] body.v \in JsonTexts -> Ok(JsonValue(body.v))
      [] OTHER -> Throw(JsonSyntaxError(body.v))

-----------------------------------------------------------------------------
(* validateFormData.                                                       *)

\* Verdicts of the validator package on the strings the model uses.
ValidEmails == {"jo@x.com", "li@example.org"}
ValidMobilePhones == {"+15555550123", "+919876543210"}

isEmail(s) == s \in ValidEmails
isMobilePhone(s) == s \in ValidMobilePhones

NameError == "Name is required and must be at least 2 characters"
EmailError == "Valid email is required"
PhoneError == "Valid phone number is required"

\* Each rule pushes its error ("error"), passes ("pass"), or throws
\* ("throw") when a truthy value that is not a string reaches .trim() or
\* the validator package.
NameRule(data) ==
    IF ~Truthy(Get(data, "name")) THEN "error"
    ELSE IF ~IsStr(Get(data, "name")) THEN "throw"
    ELSE IF Len(Trim(Get(data, "name").v)) < 2 THEN "error"
    ELSE "pass"

EmailRule(data) ==
    IF ~Truthy(Get(data, "email")) THEN "error"
    ELSE IF ~IsStr(Get(data, "email")) THEN "throw"
    ELSE IF ~isEmail(Get(data, "email").v) THEN "error"
    ELSE "pass"

PhoneRule(data) ==
    IF ~Truthy(Get(data, "phone")) THEN "error"
    ELSE IF ~IsStr(Get(data, "phone")) THEN "throw"
    ELSE IF ~isMobilePhone(Get(data, "phone").v) THEN "error"
    ELSE "pass"

Returned(errors) == [threw |-> FALSE, errors |-> errors, error |-> ""]
Threw(msg) == [threw |-> TRUE, errors |-> <<>>, error |-> msg]
NoValidation == [threw |-> FALSE, errors |-> <<>>, error |-> "not run"]

\* Mutant: validation stops at the first rule that fails.
validateFormDataShortCircuit(data) ==
    IF NameRule(data) = "error" THEN Returned(<<NameError>>)
    ELSE IF EmailRule(data) = "error" THEN Returned(<<EmailError>>)
    ELSE IF PhoneRule(data) = "error" THEN Returned(<<PhoneError>>)
    ELSE Returned(<<>>)

validateFormData(data) ==
    IF ~data.isObject
    THEN Threw("Cannot read properties of null (reading 'name')")
    ELSE IF NameRule(data) = "throw"
    THEN Threw("data.name.trim is not a function")
    ELSE IF EmailRule(data) = "throw" \/ PhoneRule(data) = "throw"
    THEN Threw("Expected a string but received a number")
    ELSE Returned((IF NameRule(data) = "error" THEN <<NameError>> ELSE <<>>)
                  \o (IF EmailRule(data) = "error" THEN <<EmailError>> ELSE <<>>)
                  \o (IF PhoneRule(data) = "error" THEN <<PhoneError>> ELSE <<>>))

-----------------------------------------------------------------------------
(* buildEmailSubject and buildEmailBody.                                   *)

\* String(n).padStart(2, "0")
PadStart2(n) ==
    IF Len(NumberToString(n)) < 2
    THEN "0" \o NumberToString(n)
    ELSE NumberToString(n)

\* clock is the local time: getDate, getMonth (0-based), getFullYear,
\* getHours, getMinutes.
buildEmailSubject(clock) ==
    "New Form Submission - Insurance Quote Request #"
    \o PadStart2(clock.date) \o PadStart2(clock.month + 1)
    \o NumberToString(clock.fullYear)
    \o PadStart2(clock.hours) \o PadStart2(clock.minutes)

\* ${value} in a template literal: String(value).
ToText(x) ==
    CASE x.t = "null" -> "null"
      [] x.t = "undefined" -> "undefined"
      [] OTHER -> x.v

NeedsText(data) ==
    IF Truthy(Get(data, "needs")) THEN ToText(Get(data, "needs")) ELSE "Not specified"

buildEmailBody(data) ==
    Trim("\nNew Form Submission Received\n\nDetails:\nName: "
         \o ToText(Get(data, "name"))
         \o "\nEmail: " \o ToText(Get(data, "email"))
         \o "\nPhone: " \o ToText(Get(data, "phone"))
         \o "\nInsurance Needs: " \o NeedsText(data)
         \o "\n\nPlease follow up with the customer as needed.\n  ")

-----------------------------------------------------------------------------
(* JSON.stringify of the response bodies.                                  *)

\* Two lower-case hexadecimal digits of n < 256.
Hex2(n) ==
    CharAt("0123456789abcdef", n \div 16) \o CharAt("0123456789abcdef", n % 16)

\* The characters of code 1 to 31.
ControlCharacters == {CharOfCode(n) : n \in 1..31}

\* The escape of a quote, a backslash or a control character: the short
\* escapes \b \t \n \f \r, and \u00XX for the other control characters.
EscapeChar(c) ==
    CASE c = "\"" -> "\\\""
      [] c = "\\" -> "\\\\"
      [] c = CharOfCode(8) -> "\\b"
      [] c = "\t" -> "\\t"
      [] c = "\n" -> "\\n"
      [] c = "\f" -> "\\f"
      [] c = "\r" -> "\\r"
      [] OTHER -> "\\u00" \o Hex2(IndexOf(Latin1Low, c) + 1)

\* The characters JSON.stringify writes as an escape.
Escaped == {"\"", "\\"} \cup ControlCharacters

EscapedAt(s) == {i \in 0..(Len(s) - 1) : CharAt(s, i) \in Escaped}

RECURSIVE Escape(_)
Escape(s) ==
    IF EscapedAt(s) = {} THEN s
    ELSE LET i == SetMin(EscapedAt(s))
         IN Substring(s, 0, i) \o EscapeChar(CharAt(s, i))
            \o Escape(SubSeq(s, i + 2, Len(s)))

JsonString(s) == "\"" \o Escape(s) \o "\""

RECURSIVE JoinStrings(_)
JoinStrings(items) ==
    IF items = <<>> THEN ""
    ELSE IF Len(items) = 1 THEN JsonString(Head(items))
    ELSE JsonString(Head(items)) \o "," \o JoinStrings(Tail(items))

JsonArray(items) == "[" \o JoinStrings(items) \o "]"

StatusMessage(status, message) ==
    "\"status\":" \o JsonString(status) \o ",\"message\":" \o JsonString(message)

-----------------------------------------------------------------------------
(* The responses.                                                          *)

PreflightHeaders ==
    [h \in {"Access-Control-Allow-Origin", "Access-Control-Allow-Methods",
            "Access-Control-Allow-Headers"} |->
        CASE h = "Access-Control-Allow-Origin" -> "*"
          [] h = "Access-Control-Allow-Methods" -> "GET, POST, PUT, DELETE, OPTIONS"
          [] OTHER -> "Content-Type, Authorization"]

JsonHeaders ==
    [h \in {"Access-Control-Allow-Origin", "Content-Type"} |->
        IF h = "Access-Control-Allow-Origin" THEN "*" ELSE "application/json"]

Response(status, headers, body) ==
    [statusCode |-> status, headers |-> headers, body |-> body]

NoResponse == Response(0, [h \in {} |-> ""], "")

PreflightResponse == Response(200, PreflightHeaders, "")

MethodNotAllowedResponse ==
    Response(405, JsonHeaders,
             "{" \o StatusMessage("error", "Method not allowed") \o "}")

ValidationResponse(errors) ==
    Response(400, JsonHeaders,
             "{" \o StatusMessage("error", "Validation errors")
             \o ",\"errors\":" \o JsonArray(errors) \o "}")

\* Mutant: success is answered with 201.
SuccessResponseCreated ==
    Response(201, JsonHeaders,
             "{" \o StatusMessage("success", "Form submitted successfully!") \o "}")

SuccessResponse ==
    Response(200, JsonHeaders,
             "{" \o StatusMessage("success", "Form submitted successfully!") \o "}")

InternalErrorMessage == "Internal server error. Please try again."

\* Mutant: the error detail is echoed whatever NODE_ENV is.
EchoesDetailAlways(v, environment) == v \in {"netlify", "multipart"}

\* The basic handler never adds the error property; the other two add it
\* when NODE_ENV is "development" (an undefined property is not written).
EchoesDetail(v, environment) ==
    v \in {"netlify", "multipart"} /\ environment.NODE_ENV = Str("development")

ErrorResponse(v, environment, message) ==
    Response(500, JsonHeaders,
             "{" \o StatusMessage("error", InternalErrorMessage)
             \o (IF EchoesDetail(v, environment)
                 THEN ",\"error\":" \o JsonString(message)
                 ELSE "")
             \o "}")

-----------------------------------------------------------------------------
(* exports.handler up to its first suspension.                             *)

\* event.headers is an object or missing altogether.
Headers(props) == [present |-> TRUE, props |-> props]
NoHeaders == [present |-> FALSE, props |-> NoProps]

HeadersTypeError == "Cannot read properties of undefined (reading 'content-type')"

\* The multipart handler reads event.headers["content-type"] in its first
\* log call, before the method checks and outside the try block.
EntryLogThrows(v, ev) == v = "multipart" /\ ~ev.headers.present

ChecksCredentials(v) == v \in {"netlify", "multipart"}

CredentialsMissing(environment) ==
    ~Truthy(environment.MAIL_USERNAME) \/ ~Truthy(environment.MAIL_PASSWORD)

\* contentType.split("boundary=")[1]
Boundary(contentType) ==
    IF Len(Split(contentType, "boundary=")) >= 2
    THEN Str(Split(contentType, "boundary=")[2])
    ELSE Undefined

UrlEncodedBody(ev) == Ok(UrlEncodedFormData(ev.body))

\* The basic and netlify handlers: JSON when the content type says so,
\* url-encoded otherwise.  The optional call ?.includes passes over a null
\* or undefined header only: a number has no includes method.
ParseTwoWay(ev) ==
    LET contentType == Get(ev.headers, "content-type")
    IN IF contentType.t \in {"null", "undefined"}
       THEN UrlEncodedBody(ev)
       ELSE IF ~IsStr(contentType)
       THEN Throw("event.headers.content-type?.includes is not a function")
       ELSE IF Includes(contentType.v, "application/json")
       THEN JsonParse(ev.body)
       ELSE UrlEncodedBody(ev)

\* The multipart handler: JSON, url-encoded, multipart, url-encoded fallback.
\* A falsy header is replaced by ""; a truthy number has no includes method.
ParseByContentType(ev) ==
    LET header == Get(ev.headers, "content-type")
        contentType == IF Truthy(header) THEN header.v ELSE ""
    IN IF Truthy(header) /\ ~IsStr(header)
       THEN Throw("contentType.includes is not a function")
       ELSE IF Includes(contentType, "application/json")
       THEN JsonParse(ev.body)
       ELSE IF Includes(contentType, "application/x-www-form-urlencoded")
       THEN UrlEncodedBody(ev)
       ELSE IF Includes(contentType, "multipart/form-data")
       THEN IF ~Truthy(Boundary(contentType))
            THEN Throw("No boundary found in multipart data")
            ELSE IF ev.body.t \in {"null", "undefined"}
            THEN Throw("Cannot read properties of " \o ev.body.t
                       \o " (reading 'split')")
            ELSE IF ~IsStr(ev.body)
            THEN Throw("body.split is not a function")
            ELSE Ok(parseMultipartFormData(ev.body.v, Boundary(contentType).v))
       ELSE UrlEncodedBody(ev)

ParseBody(v, ev) ==
    IF ~ev.headers.present THEN Throw(HeadersTypeError)
    ELSE IF v = "multipart" THEN ParseByContentType(ev)
    ELSE ParseTwoWay(ev)

DefaultRecipient(v) == IF v = "basic" THEN "abcd@gmail.com" ELSE "default@example.com"

MailOptions(v, environment, clock, data) ==
    [from |-> environment.MAIL_USERNAME,
     to |-> IF Truthy(environment.EMAIL_TO)
            THEN environment.EMAIL_TO.v
            ELSE DefaultRecipient(v),
     subject |-> buildEmailSubject(clock),
     text |-> buildEmailBody(data)]

NoMail == [from |-> Undefined, to |-> "", subject |-> "", text |-> ""]

\* nodemailer.createTransporter(config) is a call of a property of the
\* loaded module: a TypeError when the module does not export that name.
createTransporter(exports) ==
    IF "createTransporter" \in exports
    THEN Ok(NullObj)
    ELSE Throw("nodemailer.createTransporter is not a function")

\* What a run of the handler has done when it returns, suspends or throws.
Outcome(kind, resp) ==
    [kind |-> kind, response |-> resp, uncaught |-> "", caught |-> "",
     credsChecked |-> FALSE, parsed |-> FALSE, formData |-> NullObj,
     validation |-> NoValidation, transporters |-> 0, sendCalls |-> 0,
     sent |-> NoMail]

\* The catch block: one 500 response for whatever the try block threw.
Catch(v, environment, message, done) ==
    [done EXCEPT !.kind = "return", !.caught = message,
                 !.response = ErrorResponse(v, environment, message)]

\* Mutant: sendMail is called without await and success is returned at once.
AfterParseNoAwait(v, environment, exports, clock, data, done) ==
    LET checked == validateFormData(data)
        validated == [done EXCEPT !.parsed = TRUE, !.formData = data,
                                  !.validation = checked]
        created == [validated EXCEPT !.transporters = 1]
    IN IF checked.threw
       THEN Catch(v, environment, checked.error, validated)
       ELSE IF Len(checked.errors) > 0
       THEN [validated EXCEPT !.kind = "return",
                              !.response = ValidationResponse(checked.errors)]
       ELSE IF ~createTransporter(exports).ok
       THEN Catch(v, environment, createTransporter(exports).error, created)
       ELSE [created EXCEPT !.kind = "return", !.sendCalls = 1,
                            !.sent = MailOptions(v, environment, clock, data),
                            !.response = SuccessResponse]

\* The try block after the body was parsed into data.
AfterParse(v, environment, exports, clock, data, done) ==
    LET checked == validateFormData(data)
        validated == [done EXCEPT !.parsed = TRUE, !.formData = data,
                                  !.validation = checked]
        created == [validated EXCEPT !.transporters = 1]
    IN IF checked.threw
       THEN Catch(v, environment, checked.error, validated)
       ELSE IF Len(checked.errors) > 0
       THEN [validated EXCEPT !.kind = "return",
                              !.response = ValidationResponse(checked.errors)]
       ELSE IF ~createTransporter(exports).ok
       THEN Catch(v, environment, createTransporter(exports).error, created)
       ELSE [created EXCEPT !.kind = "await", !.sendCalls = 1,
                            !.sent = MailOptions(v, environment, clock, data)]

TryBlock(v, ev, environment, exports, clock) ==
    LET start == Outcome("", NoResponse)
        checked == [start EXCEPT !.credsChecked = ChecksCredentials(v)]
        body == ParseBody(v, ev)
    IN IF ChecksCredentials(v) /\ CredentialsMissing(environment)
       THEN Catch(v, environment, "Missing required environment variables", checked)
       ELSE IF ~body.ok
       THEN Catch(v, environment, body.error, checked)
       ELSE AfterParse(v, environment, exports, clock, body.value, checked)

\* Mutant: only GET is refused; other methods fall through to the try block.
handlerRefusesGetOnly(v, ev, environment, exports, clock) ==
    IF EntryLogThrows(v, ev)
    THEN [Outcome("throw", NoResponse) EXCEPT !.uncaught = HeadersTypeError]
    ELSE IF ev.httpMethod = "OPTIONS"
    THEN Outcome("return", PreflightResponse)
    ELSE IF ev.httpMethod = "GET"
    THEN Outcome("return", MethodNotAllowedResponse)
    ELSE TryBlock(v, ev, environment, exports, clock)

handler(v, ev, environment, exports, clock) ==
    IF EntryLogThrows(v, ev)
    THEN [Outcome("throw", NoResponse) EXCEPT !.uncaught = HeadersTypeError]
    ELSE IF ev.httpMethod = "OPTIONS"
    THEN Outcome("return", PreflightResponse)
    ELSE IF ev.httpMethod # "POST"
    THEN Outcome("return", MethodNotAllowedResponse)
    ELSE TryBlock(v, ev, environment, exports, clock)

-----------------------------------------------------------------------------
(* The requests, configurations and libraries the model runs.              *)

Variants == {"basic", "netlify", "multipart"}

Methods == {"OPTIONS", "POST", "GET", "PUT"}

ContentTypes ==
    {"application/json", "application/x-www-form-urlencoded",
     "multipart/form-data; boundary=X", "multipart/form-data", "text/plain"}

ContentType(ct) == Headers([h \in {"content-type"} |-> Str(ct)])

HeaderValues ==
    {NoHeaders, Headers(NoProps), Headers([h \in {"content-type"} |-> Num("5")])}
    \cup {ContentType(ct) : ct \in ContentTypes}

\* A multipart/form-data body: a part declares its field name and, for a
\* file, a file name, here written before the field name.
FileField(name, value, filename) ==
    [name |-> name, value |-> value, filename |-> filename]

Field(name, value) == FileField(name, value, "")

PartText(field) ==
    "\r\nContent-Disposition: form-data; "
    \o (IF field.filename = "" THEN ""
        ELSE "filename=\"" \o field.filename \o "\"; ")
    \o "name=\"" \o field.name \o "\"\r\n\r\n"
    \o field.value \o "\r\n"

RECURSIVE PartsText(_, _)
PartsText(fields, boundary) ==
    IF fields = <<>> THEN ""
    ELSE "--" \o boundary \o PartText(Head(fields)) \o PartsText(Tail(fields), boundary)

MultipartText(fields, boundary) ==
    PartsText(fields, boundary) \o "--" \o boundary \o "--\r\n"

FormComplete == "name=Jo+Li&email=jo%40x.com&phone=%2B15555550123&needs=Health+cover"
FormNoPhone == "name=J%6f&email=jo%40x.com"
MultipartComplete ==
    MultipartText(<<Field("name", "Jo"), Field("email", "jo@x.com"),
                    Field("phone", "+15555550123"), Field("needs", "")>>, "X")
MultipartTwoFields ==
    MultipartText(<<Field("name", "Jo"), Field("email", "jo@x.com")>>, "X")

Bodies ==
    {Null, Str(""), Str(JsonTruncated), Str(JsonComplete), Str(JsonNoNeeds),
     Str(JsonAllInvalid), Str(JsonNumberName), Str(FormComplete), Str(FormNoPhone),
     Str(MultipartComplete), Str(MultipartTwoFields)}

Events == [httpMethod : Methods, headers : HeaderValues, body : Bodies]

Environments ==
    [MAIL_USERNAME : {Undefined, Str("sender@gmail.com")},
     MAIL_PASSWORD : {Undefined, Str("app-password")},
     EMAIL_TO : {Undefined, Str("sales@example.com")},
     NODE_ENV : {Undefined, Str("development")}]

\* The published nodemailer module exports createTransport; a module that
\* also exports createTransporter is one the handler can obtain a
\* transporter from.
MailerModules == {{"createTransport"}, {"createTransport", "createTransporter"}}

Clocks ==
    {[date |-> 3, month |-> 10, fullYear |-> 2025, hours |-> 14, minutes |-> 5]}

\* What sendMail rejects with.
SendErrors == {"Invalid login: 535 Username and Password not accepted",
               "connect ETIMEDOUT"}

-----------------------------------------------------------------------------
(* The request state machine.                                              *)

ValidatorIdle ==
    vData = Obj(NoProps) /\ vResult = NoValidation /\ vBody = "" /\ vDone = FALSE

MultipartIdle ==
    /\ mpParts = <<>>
    /\ mpBody = ""
    /\ mpContentType = ""
    /\ mpResult = Obj(NoProps)
    /\ mpDone = FALSE

HarnessIdle == ValidatorIdle /\ MultipartIdle

Received ==
    /\ pc = "received"
    /\ response = NoResponse
    /\ responses = 0
    /\ uncaught = ""
    /\ credsChecked = FALSE
    /\ parsed = FALSE
    /\ formData = NullObj
    /\ validation = NoValidation
    /\ transporters = 0
    /\ sendCalls = 0
    /\ sent = NoMail
    /\ sendOutcome = "none"
    /\ caught = ""

Init ==
    /\ variant \in Variants
    /\ event \in Events
    /\ env \in Environments
    /\ mailer \in MailerModules
    /\ now \in Clocks
    /\ Received
    /\ HarnessIdle

\* The handler runs from its entry to a return, an exception that leaves
\* it, or the await of sendMail.
Invoke ==
    /\ pc = "received"
    /\ LET done == handler(variant, event, env, mailer, now)
       IN /\ pc' = CASE done.kind = "return" -> "responded"
                     [] done.kind = "await" -> "awaitSend"
                     [] OTHER -> "threw"
          /\ response' = done.response
          /\ responses' = IF done.kind = "return" THEN 1 ELSE 0
          /\ uncaught' = done.uncaught
          /\ credsChecked' = done.credsChecked
          /\ parsed' = done.parsed
          /\ formData' = done.formData
          /\ validation' = done.validation
          /\ transporters' = done.transporters
          /\ sendCalls' = done.sendCalls
          /\ sent' = done.sent
          /\ sendOutcome' = IF done.kind = "await" THEN "pending" ELSE "none"
          /\ caught' = done.caught
    /\ UNCHANGED <<variant, event, env, mailer, now, validatorVars, multipartVars>>

\* sendMail resolves with the delivery info: the handler returns success.
SendMailResolves ==
    /\ pc = "awaitSend"
    /\ pc' = "responded"
    /\ sendOutcome' = "resolved"
    /\ response' = SuccessResponse
    /\ responses' = responses + 1
    /\ UNCHANGED <<variant, event, env, mailer, now, uncaught, credsChecked, parsed,
                   formData, validation, transporters, sendCalls, sent, caught,
                   validatorVars, multipartVars>>

\* sendMail rejects: the catch block answers.
SendMailRejects ==
    /\ pc = "awaitSend"
    /\ \E message \in SendErrors :
        /\ caught' = message
        /\ response' = ErrorResponse(variant, env, message)
    /\ pc' = "responded"
    /\ sendOutcome' = "rejected"
    /\ responses' = responses + 1
    /\ UNCHANGED <<variant, event, env, mailer, now, uncaught, credsChecked, parsed,
                   formData, validation, transporters, sendCalls, sent,
                   validatorVars, multipartVars>>

Next == Invoke \/ SendMailResolves \/ SendMailRejects

Spec == Init /\ [][Next]_vars

-----------------------------------------------------------------------------
(* validateFormData and buildEmailBody applied to submissions.             *)

\* No request is in progress.
HandlerIdle ==
    /\ variant = "netlify"
    /\ event = [httpMethod |-> "POST", headers |-> NoHeaders, body |-> Null]
    /\ env = [MAIL_USERNAME |-> Undefined, MAIL_PASSWORD |-> Undefined,
              EMAIL_TO |-> Undefined, NODE_ENV |-> Undefined]
    /\ mailer = {"createTransport"}
    /\ now \in Clocks
    /\ pc = "idle"
    /\ response = NoResponse
    /\ responses = 0
    /\ uncaught = ""
    /\ credsChecked = FALSE
    /\ parsed = FALSE
    /\ formData = NullObj
    /\ validation = NoValidation
    /\ transporters = 0
    /\ sendCalls = 0
    /\ sent = NoMail
    /\ sendOutcome = "none"
    /\ caught = ""

NameValues == {Undefined, Null, Str(""), Str("J"), Str(" J "), Str("   "), Str("Jo"),
               Str(" Jo Li "), Str(CharOfCode(11) \o "J" \o CharOfCode(160))}
EmailValues == {Undefined, Null, Str(""), Str("not-an-email"), Str("jo@x.com")}
PhoneValues == {Undefined, Null, Str(""), Str("abc"), Str("+15555550123")}
NeedsValues == {Undefined, Null, Str(""), Str("Health cover")}

Submission(n, e, p, needs) == Put(Obj(Props3(n, e, p)), "needs", needs)

Submissions ==
    {Submission(n, e, p, needs) :
        n \in NameValues, e \in EmailValues, p \in PhoneValues, needs \in NeedsValues}

InitValidate ==
    /\ HandlerIdle
    /\ MultipartIdle
    /\ vData \in Submissions
    /\ vResult = NoValidation
    /\ vBody = ""
    /\ vDone = FALSE

Validate ==
    /\ ~vDone
    /\ vResult' = validateFormData(vData)
    /\ vBody' = buildEmailBody(vData)
    /\ vDone' = TRUE
    /\ UNCHANGED <<vData, handlerVars, multipartVars>>

NextValidate == Validate

SpecValidate == InitValidate /\ [][NextValidate]_vars

-----------------------------------------------------------------------------
(* parseMultipartFormData applied to multipart bodies, through the         *)
(* multipart branch of the handler's parser.                               *)

MaxParts == 2

FormBoundary == "----FormBoundary7MA4YWxk"

\* The ways a content-type header declares the boundary: bare, quoted,
\* and followed by another parameter.
BoundaryDeclarations ==
    {FormBoundary, "\"" \o FormBoundary \o "\"", FormBoundary \o "; charset=utf-8"}

FieldNames == {"name", "email", "needs", "__proto__"}
FieldTexts == {"Jo", " jo@x.com ", "", "12 High St\r\nFlat 2"}
FileNames == {"", "cv.txt"}

Fields == {FileField(n, t, f) : n \in FieldNames, t \in FieldTexts, f \in FileNames}

FieldLists == UNION {[1..k -> Fields] : k \in 0..MaxParts}

InitMultipart ==
    /\ HandlerIdle
    /\ ValidatorIdle
    /\ mpParts \in FieldLists
    /\ mpBody = MultipartText(mpParts, FormBoundary)
    /\ mpContentType \in {"multipart/form-data; boundary=" \o d : d \in BoundaryDeclarations}
    /\ mpResult = Obj(NoProps)
    /\ mpDone = FALSE

ParseMultipart ==
    /\ ~mpDone
    /\ mpResult' =
         ParseByContentType(
             [httpMethod |-> "POST",
              headers |-> ContentType(mpContentType),
              body |-> Str(mpBody)]).value
    /\ mpDone' = TRUE
    /\ UNCHANGED <<mpParts, mpBody, mpContentType, handlerVars, validatorVars>>

NextMultipart == ParseMultipart

SpecMultipart == InitMultipart /\ [][NextMultipart]_vars

-----------------------------------------------------------------------------
(* Properties.  A property about a handler names the handlers it is       *)
(* stated for: submit-form.js is "netlify", part_000 holds "basic" and     *)
(* "multipart".                                                            *)

Finished == pc \in {"responded", "threw"}
IsPost == event.httpMethod = "POST"

SuccessBody == "{\"status\":\"success\",\"message\":\"Form submitted successfully!\"}"
MethodNotAllowedBody == "{\"status\":\"error\",\"message\":\"Method not allowed\"}"
InternalErrorBody ==
    "{\"status\":\"error\",\"message\":\"Internal server error. Please try again.\"}"
ValidationBodyStart == "{\"status\":\"error\",\"message\":\"Validation errors\",\"errors\":"

\* The rules of the validator on a submission whose fields are strings or
\* missing.
Missing(x) == x.t \in {"undefined", "null"} \/ x = Str("")
StringOrMissing(x) == x.t \in {"undefined", "null", "string"}
WellTyped(data) ==
    /\ data.isObject
    /\ \A k \in {"name", "email", "phone"} : StringOrMissing(Get(data, k))
NameViolated(data) ==
    Missing(Get(data, "name")) \/ Len(Trim(Get(data, "name").v)) < 2
EmailViolated(data) ==
    Missing(Get(data, "email")) \/ Get(data, "email").v \notin ValidEmails
PhoneViolated(data) ==
    Missing(Get(data, "phone")) \/ Get(data, "phone").v \notin ValidMobilePhones
ExpectedErrors(data) ==
    (IF NameViolated(data) THEN <<NameError>> ELSE <<>>)
    \o (IF EmailViolated(data) THEN <<EmailError>> ELSE <<>>)
    \o (IF PhoneViolated(data) THEN <<PhoneError>> ELSE <<>>)

\* C1: a POST with credentials configured, a parsed body and a submission
\* that passes validation is answered, once sendMail has resolved, with
\* status 200 and the success body.
C1_AcceptedSendAnswers200 ==
    (/\ IsPost
     /\ ~CredentialsMissing(env)
     /\ parsed
     /\ WellTyped(formData)
     /\ ExpectedErrors(formData) = <<>>
     /\ sendOutcome = "resolved")
    => /\ pc = "responded"
       /\ response = Response(200, JsonHeaders, SuccessBody)

C1_Witness ==
    /\ variant = "netlify"
    /\ IsPost
    /\ ~CredentialsMissing(env)
    /\ sendOutcome = "resolved"
    /\ response.statusCode = 200

\* C2: a POST whose parsed submission violates a validation rule is
\* answered with status 400 and the body carrying the error list, and no
\* transporter is created and no mail sent for it.
C2_ValidationErrorsAnswer400 ==
    (/\ IsPost
     /\ parsed
     /\ ExpectedErrors(formData) # <<>>)
    => /\ pc = "responded"
       /\ response.statusCode = 400
       /\ response.headers = JsonHeaders
       /\ Substring(response.body, 0, Len(ValidationBodyStart)) = ValidationBodyStart
       /\ WellTyped(formData)
            => response.body = ValidationBodyStart
                               \o JsonArray(ExpectedErrors(formData)) \o "}"
       /\ transporters = 0
       /\ sendCalls = 0
       /\ sendOutcome = "none"

\* C3: with MAIL_USERNAME or MAIL_PASSWORD missing every POST is answered
\* with status 500 and neither createTransporter nor sendMail is called
\* (stated for the netlify and basic handlers).
C3_MissingCredentialsAnswer500 ==
    (/\ variant \in {"netlify", "basic"}
     /\ IsPost
     /\ CredentialsMissing(env)
     /\ pc # "received")
    => /\ pc = "responded"
       /\ response.statusCode = 500
       /\ transporters = 0
       /\ sendCalls = 0

\* C4: an OPTIONS request is answered with status 200, an empty body and
\* the three CORS headers whatever its body, headers and configuration,
\* without a credentials check, parsing or mail (stated for the netlify
\* and multipart handlers).
C4_OptionsAlwaysAnswers200 ==
    (/\ variant \in {"netlify", "multipart"}
     /\ event.httpMethod = "OPTIONS"
     /\ pc # "received")
    => /\ pc = "responded"
       /\ response = Response(200, PreflightHeaders, "")
       /\ ~credsChecked
       /\ ~parsed
       /\ transporters = 0
       /\ sendCalls = 0

\* C5: a request whose method is neither POST nor OPTIONS is answered by
\* the netlify handler with status 405 and the "Method not allowed" body,
\* with no credentials check, parsing, validation or mail.
C5_OtherMethodsAnswer405 ==
    (/\ variant = "netlify"
     /\ event.httpMethod \notin {"POST", "OPTIONS"}
     /\ pc # "received")
    => /\ pc = "responded"
       /\ response = Response(405, JsonHeaders, MethodNotAllowedBody)
       /\ ~credsChecked
       /\ ~parsed
       /\ validation = NoValidation
       /\ transporters = 0
       /\ sendCalls = 0

C5_Witness ==
    /\ variant = "netlify"
    /\ event.httpMethod = "PUT"
    /\ ~event.headers.present
    /\ response.statusCode = 405

\* C6: for every POST no exception leaves the handler, every failure the
\* try block raises is answered with status 500 and the fixed message, and
\* only a validation failure gives a status other than 200 and 500
\* (stated for the netlify and multipart handlers).
C6_FailuresCaughtAs500 ==
    (/\ variant \in {"netlify", "multipart"}
     /\ IsPost
     /\ pc # "received")
    => /\ pc # "threw"
       /\ uncaught = ""
       /\ caught # "" =>
            /\ response.statusCode = 500
            /\ SubSeq(response.body, 1, Len(InternalErrorBody) - 1)
                 = SubSeq(InternalErrorBody, 1, Len(InternalErrorBody) - 1)
       /\ (pc = "responded" /\ response.statusCode \notin {200, 500}) =>
            /\ response.statusCode = 400
            /\ Len(validation.errors) > 0

\* C7: unless NODE_ENV is "development" every 500 response is the same
\* response, whatever failed; a 500 body with an error property occurs only
\* under NODE_ENV "development".
C7_ErrorDetailOnlyInDebug ==
    (pc = "responded" /\ response.statusCode = 500)
    => /\ env.NODE_ENV # Str("development")
            => response = Response(500, JsonHeaders, InternalErrorBody)
       /\ response.body # InternalErrorBody
            => /\ env.NODE_ENV = Str("development")
               /\ response.body
                    = SubSeq(InternalErrorBody, 1, Len(InternalErrorBody) - 1)
                      \o ",\"error\":" \o JsonString(caught) \o "}"

C7_Witness ==
    /\ variant = "netlify"
    /\ env.NODE_ENV # Str("development")
    /\ sendOutcome = "rejected"
    /\ response.statusCode = 500

\* C8: validateFormData returns exactly one error per violated rule, in
\* the order name, email, phone, and the empty list exactly when no rule
\* is violated; the list is the same whatever needs is; buildEmailBody
\* writes a missing or empty needs as "Not specified".
C8_AllRulesReported ==
    vDone
    => /\ ~vResult.threw
       /\ vResult.errors = ExpectedErrors(vData)
       /\ (vResult.errors = <<>>)
            <=> ~(NameViolated(vData) \/ EmailViolated(vData) \/ PhoneViolated(vData))
       /\ \A needs \in NeedsValues :
            validateFormData(Put(vData, "needs", needs)) = vResult
       /\ Missing(Get(vData, "needs"))
            => Includes(vBody, "\nInsurance Needs: Not specified\n")

C8_Witness ==
    /\ vDone
    /\ vResult.errors = <<NameError, EmailError, PhoneError>>
    /\ Get(vData, "needs") = Str("")
    /\ Includes(vBody, "\nInsurance Needs: Not specified\n")

\* C9: the netlify handler answers a request exactly once, calls sendMail
\* at most once, and answers only when the send it started has resolved
\* or been rejected: success only after a resolved send, and a rejected
\* send is answered with 500 without another send.
C9_OneResponseAfterSend ==
    variant = "netlify"
    => /\ responses <= 1
       /\ sendCalls <= 1
       /\ pc \in {"received", "awaitSend", "responded"}
       /\ pc = "awaitSend" => ENABLED (SendMailResolves \/ SendMailRejects)
       /\ Finished => (pc = "responded" /\ responses = 1)
       /\ ~Finished => (responses = 0 /\ response = NoResponse)
       /\ sendOutcome = "pending" <=> pc = "awaitSend"
       /\ sendOutcome # "none" => sendCalls = 1
       /\ (Finished /\ IsPost /\ response.statusCode = 200)
            => sendOutcome = "resolved"
       /\ sendOutcome = "rejected"
            => (pc = "responded" /\ response.statusCode = 500 /\ caught \in SendErrors)

C9_Witness ==
    /\ variant = "netlify"
    /\ sendOutcome = "rejected"
    /\ responses = 1
    /\ sendCalls = 1

\* The last part declaring a field name.
LastDeclaring(parts, name) == SetMax({i \in 1..Len(parts) : parts[i].name = name})

\* C10: for a body whose parts are delimited by the boundary the content
\* type declares, every field a part declares is returned under its name
\* with the trimmed text of the part declaring it (the last one, where
\* several do).
C10_EveryPartReturned ==
    mpDone
    => /\ mpResult.isObject
       /\ \A i \in 1..Len(mpParts) :
            /\ mpParts[i].name \in DOMAIN mpResult.props
            /\ mpResult.props[mpParts[i].name]
                 = Str(Trim(mpParts[LastDeclaring(mpParts, mpParts[i].name)].value))

====
